---- MODULE Spec2Model ----
(***************************************************************************)
(* Model of the candle ingestion pipelines of stock_market_parser:         *)
(* src/src/stock_parser.py (10-minute pipeline) and                        *)
(* src/src/stock_parser_hourly.py (hourly pipeline).                       *)
(*                                                                         *)
(* Time is counted in ticks of 100 ms since Monday 00:00:00 in the trading *)
(* timezone (Europe/Moscow).  The naive local clock read at the end of an  *)
(* iteration is taken to differ from the trading clock by whole hours, so  *)
(* minute and second of both clocks coincide.                              *)
(***************************************************************************)
EXTENDS Integers, Sequences, FiniteSets, Bags, TLC

VARIABLES
    kind,            \* which script runs: "10min" or "hourly"
    clock,           \* wall clock, ticks since Monday 00:00 trading time
    start_time,      \* wall clock at process start
    pc,              \* position of the scheduler coroutine
    iter,            \* number of loop iterations begun
    entered,         \* how the loop top was reached: "start", "wake", "cooldown"
    now,             \* scheduler(): now read at the top of the iteration
    classic_stocks,  \* scheduler(): first result of get_stock_lists()
    weekend_stocks,  \* scheduler(): second result of get_stock_lists()
    instruments,     \* get_stock_lists(): the last answer of instruments.shares()
    invoked,         \* targets whose fetch_and_store was called this iteration
    wake,            \* instant at which the pending asyncio.sleep ends
    target,          \* fetch_and_store: "classic" or "weekend" ("none" outside)
    table_name,      \* fetch_and_store: table_name argument
    tickers,         \* fetch_and_store: the instruments iterated
    idx,             \* fetch_and_store: index of the current instrument
    from_time,       \* fetch_and_store: from_time of the current instrument
    to_time,         \* fetch_and_store: now of the current instrument
    attempt,         \* fetch_and_store: 1 in the first try block, 2 in the retry
    candles,         \* fetch_and_store: candles still to be stored
    reset_time,      \* fetch_and_store: seconds to sleep after throttling
    calls,           \* get_candles calls issued in the current run
    stores,          \* store_candle_in_db calls made in the current run
    run_result,      \* how the last fetch_and_store ended
    store_result,    \* outcome of the last store_candle_in_db call
    tables,          \* database: table name -> bag of rows
    faults,          \* deviations of the environment so far
    last_run,        \* per target: what its latest completed run saw and left
    query,           \* query_data.py: the arguments of the query and the rows shown
    ov_pc,           \* overlapping stores: position of each session
    ov_todo,         \* overlapping stores: candles each session still stores
    ov_tx,           \* overlapping stores: rows inserted and not yet committed
    ov_result        \* overlapping stores: outcome of each session's last store

schedVars == <<kind, clock, start_time, pc, iter, entered, now, classic_stocks,
               weekend_stocks, instruments, invoked, wake>>
runVars   == <<target, table_name, tickers, idx, from_time, to_time, attempt,
               candles, reset_time, calls, stores, run_result>>
ovVars    == <<ov_pc, ov_todo, ov_tx, ov_result>>
vars      == <<schedVars, runVars, store_result, tables, faults, ovVars,
               last_run, query>>

----------------------------------------------------------------------------
(* Bounds of the model.                                                    *)

\* Scheduler loop iterations explored.
MaxIter == 2

\* Deviations of the environment from its undisturbed course in one behaviour:
\* a changed or failed instrument listing, a get_candles answer other than one
\* prompt candle, a database failure, an exception in the scheduler loop.
MaxFaults == 2

----------------------------------------------------------------------------
(* Time.                                                                   *)

\* time.sleep(0.1) is one tick, so a second is ten ticks.
TicksPerSecond == 10
Seconds(n) == n * TicksPerSecond
Minutes(n) == Seconds(60 * n)
Hours(n)   == Minutes(60 * n)
Days(n)    == Hours(24 * n)

At(d, h, m, s) == Days(d) + Hours(h) + Minutes(m) + Seconds(s)

\* datetime fields of an instant
Weekday(t) == (t \div Days(1)) % 7
Hour(t)    == (t \div Hours(1)) % 24
Minute(t)  == (t \div Minutes(1)) % 60
Second(t)  == (t \div Seconds(1)) % 60

Kinds == {"10min", "hourly"}

\* The candle interval of a pipeline, in ticks.
Granularity(k) == IF k = "10min" THEN Minutes(10) ELSE Hours(1)

\* Offset of the trading timezone from UTC (Europe/Moscow, no DST).
MoscowOffset == Hours(3)

----------------------------------------------------------------------------
(* The provider's instruments and the catalog (get_stock_lists).           *)

Instrument(f, t, s, w) ==
    [figi |-> f, ticker |-> t, trading_status |-> s, weekend_flag |-> w]

\* weekend_flag is "absent" when the attribute does not exist on the object.
InstrA == Instrument("FIGI_A", "AAA", "NORMAL_TRADING", "absent")
InstrB == Instrument("FIGI_B", "BBB", "CLOSED", "true")
InstrC == Instrument("FIGI_C", "CCC", "NORMAL_TRADING", "true")
InstrD == Instrument("FIGI_D", "DDD", "CLOSED", "false")
InstrE == Instrument("FIGI_E", "EEE", "CLOSED", "absent")
\* A second instrument with the display ticker of InstrC under its own FIGI.
InstrG == Instrument("FIGI_G", "CCC", "NORMAL_TRADING", "true")

\* Answers of client.instruments.shares(): a listing, or a failure.
NominalCatalog == <<InstrA, InstrB, InstrC, InstrD, InstrE>>
Catalogs == { NominalCatalog, <<InstrC>>, <<InstrC, InstrG>> }
ListReplies == [ok : {TRUE}, instruments : Catalogs]
               \cup {[ok |-> FALSE, instruments |-> <<>>]}

\* No answer of instruments.shares() was received yet.
NoListing == [ok |-> FALSE, instruments |-> <<>>]

\* The status allow-list of each script's classic filter.
ClassicStatuses(k) ==
    IF k = "10min"
    THEN {"NORMAL_TRADING", "BREAK_IN_TRADING"}
    ELSE {"NORMAL_TRADING", "NOT_AVAILABLE_FOR_TRADING"}

IsClassic(k, i) == i.trading_status \in ClassicStatuses(k)

\* A weekend filter that also asks for normal trading.
IsWeekend_WhileTrading(i) ==
    i.weekend_flag = "true" /\ i.trading_status = "NORMAL_TRADING"

\* getattr(instrument, 'weekend_flag', False)
IsWeekend(i) == i.weekend_flag = "true"

\* One entry of a stock list: the identifier passed to get_candles and the
\* value passed on to store_candle_in_db as the ticker.  The 10-minute script
\* keeps a list of FIGIs and stores the FIGI; the hourly script keeps a dict
\* FIGI -> ticker and stores the ticker.
StockEntry(k, i) ==
    [figi |-> i.figi, ticker |-> IF k = "10min" THEN i.figi ELSE i.ticker]

RECURSIVE MapEntries(_, _)
MapEntries(k, s) ==
    IF s = <<>> THEN <<>>
    ELSE <<StockEntry(k, Head(s))>> \o MapEntries(k, Tail(s))

RECURSIVE Reverse(_)
Reverse(s) == IF s = <<>> THEN <<>> ELSE Reverse(Tail(s)) \o <<Head(s)>>

\* A get_stock_lists whose lists come out in the reverse of the listing's order.
get_stock_lists_Reversed(k, reply) ==
    IF ~reply.ok
    THEN << <<>>, <<>> >>
    ELSE << Reverse(MapEntries(k, SelectSeq(reply.instruments,
                                            LAMBDA i : IsClassic(k, i)))),
            Reverse(MapEntries(k, SelectSeq(reply.instruments,
                                            LAMBDA i : IsWeekend(i)))) >>

\* A get_stock_lists that answers a failed listing with the lists of the
\* undisturbed catalog instead of empty ones.
get_stock_lists_KeepsOldLists(k, reply) ==
    LET cat == IF reply.ok THEN reply.instruments ELSE NominalCatalog
    IN  << MapEntries(k, SelectSeq(cat, LAMBDA i : IsClassic(k, i))),
           MapEntries(k, SelectSeq(cat, LAMBDA i : IsWeekend(i))) >>

\* get_stock_lists(): <<classic_stocks, weekend_stocks>>
get_stock_lists(k, reply) ==
    IF ~reply.ok
    THEN << <<>>, <<>> >>
    ELSE << MapEntries(k, SelectSeq(reply.instruments, LAMBDA i : IsClassic(k, i))),
            MapEntries(k, SelectSeq(reply.instruments, LAMBDA i : IsWeekend(i))) >>

----------------------------------------------------------------------------
(* Candles and the provider's answers to get_candles.                      *)

Quotation(u, n) == [units |-> u, nano |-> n]

\* candle.time: a timezone-aware datetime ("dt"), an ISO-8601 string ("str"),
\* a string isoparse rejects ("badstr") or a value of another type ("other").
\* wall is the wall-clock reading and off its UTC offset.
Stamp(f, w, o) == [form |-> f, wall |-> w, off |-> o]

Candle(t, q) == [time |-> t, open |-> q, high |-> q, low |-> q, close |-> q]

\* Two candle begin times (trading-time instants).
T1 == At(0, 9, 50, 0)
T2 == At(0, 10, 0, 0)

Q1 == Quotation(150, 250000000)
Q2 == Quotation(151, 500)

\* The same instant T1 as a UTC datetime and as a +03:00 ISO string.
CandleT1dt  == Candle(Stamp("dt", T1 - MoscowOffset, 0), Q1)
CandleT1str == Candle(Stamp("str", T1, MoscowOffset), Q2)
CandleT2dt  == Candle(Stamp("dt", T2 - MoscowOffset, 0), Q1)
CandleBad   == Candle(Stamp("other", 0, 0), Q1)
CandleBadStr == Candle(Stamp("badstr", 0, 0), Q2)

\* The candle lists an answer may carry: one candle, two candles of which the
\* first has the begin time of the former but other prices, and a list whose
\* first two candles have unusable timestamps.
CandleLists == { <<CandleT1dt>>, <<CandleT1str, CandleT2dt>>,
                 <<CandleBad, CandleBadStr, CandleT2dt>> }

\* re.metadata.get('ratelimit_reset', 60): the hint is absent, a number of
\* seconds, or a value int() rejects.
Hint(h, v) == [how |-> h, val |-> v]
Hints == { Hint("absent", 0), Hint("num", 5), Hint("bad", 0) }

\* How long a provider call takes, in ticks: at once, or longer than an hour.
SlowCall == Hours(1) + Minutes(1)

Reply(ty, cs, h, d) == [type |-> ty, candles |-> cs, hint |-> h, took |-> d]

\* Answers of client.market_data.get_candles(): candles, a RequestError with
\* RESOURCE_EXHAUSTED ("throttled"), another RequestError ("error"), or any
\* other exception ("exception").
CandleReplies ==
    { Reply("ok", cs, Hint("absent", 0), 0) : cs \in CandleLists }
    \cup { Reply("ok", <<>>, Hint("absent", 0), SlowCall) }
    \cup { Reply("throttled", <<>>, h, 0) : h \in Hints }
    \cup { Reply("error", <<>>, Hint("absent", 0), 0),
           Reply("exception", <<>>, Hint("absent", 0), 0) }

\* The answers of an undisturbed provider; every other answer is a deviation.
NominalList  == [ok |-> TRUE, instruments |-> NominalCatalog]
NominalReply == Reply("ok", <<CandleT1dt>>, Hint("absent", 0), 0)

\* The environment deviates n more times.
Inject(n) == faults + n <= MaxFaults /\ faults' = faults + n

----------------------------------------------------------------------------
(* The database and store_candle_in_db.                                    *)

TableNames == {"classic_stocks", "weekend_stocks",
               "classic_stocks_hourly", "weekend_stocks_hourly"}

\* Every run writing to the script's weekend table.
TableOf_AlwaysWeekend(k, tg) ==
    IF k = "10min" THEN "weekend_stocks" ELSE "weekend_stocks_hourly"

\* The table a script writes a target's candles to.
TableOf(k, tg) ==
    IF k = "10min"
    THEN (IF tg = "classic" THEN "classic_stocks" ELSE "weekend_stocks")
    ELSE (IF tg = "classic" THEN "classic_stocks_hourly" ELSE "weekend_stocks_hourly")

\* Both scripts adding ten minutes.
CloseDelta_TenMinutes(k) == Minutes(10)

\* timedelta added to begin_time by a script's store_candle_in_db.
CloseDelta(k) == IF k = "10min" THEN Minutes(10) ELSE Hours(1)

\* parser.isoparse / a timezone-aware datetime: the instant on the trading axis.
ToInstant(ts) == ts.wall - ts.off + MoscowOffset

\* units + nano / 1e9 stored in a NUMERIC(12, 6) column: millionths, rounded.
Price(q) == q.units * 1000000 + (q.nano + 500) \div 1000

\* A row whose begin time is the instant of the fetch, not the candle's.
Row_AtFetchTime(k, c, tk) ==
    [ticker     |-> tk,
     begin_time |-> to_time,
     close_time |-> to_time + CloseDelta(k),
     open  |-> Price(c.open),
     high  |-> Price(c.high),
     low   |-> Price(c.low),
     close |-> Price(c.close)]

Row(k, c, tk) ==
    [ticker     |-> tk,
     begin_time |-> ToInstant(c.time),
     close_time |-> ToInstant(c.time) + CloseDelta(k),
     open  |-> Price(c.open),
     high  |-> Price(c.high),
     low   |-> Price(c.low),
     close |-> Price(c.close)]

SameKey(r1, r2) == r1.ticker = r2.ticker /\ r1.begin_time = r2.begin_time

HasKey(tbl, row) == \E r \in BagToSet(tbl) : SameKey(r, row)

\* A plain INSERT against the UNIQUE (ticker, begin_time) constraint: the
\* statement fails when the key exists.
InsertPlain(tbl, row) ==
    IF HasKey(tbl, row)
    THEN [status |-> "unique_violation", table |-> tbl]
    ELSE [status |-> "inserted", table |-> tbl (+) SetToBag({row})]

\* An INSERT into a table that has no uniqueness constraint.
InsertUnconstrained(tbl, row) ==
    [status |-> "inserted", table |-> tbl (+) SetToBag({row})]

\* An upsert: the row of the same key is replaced by the new one.
InsertOrReplace(tbl, row) ==
    IF HasKey(tbl, row)
    THEN [status |-> "duplicate",
          table  |-> (tbl (-) SetToBag({r \in BagToSet(tbl) : SameKey(r, row)}))
                     (+) SetToBag({row})]
    ELSE [status |-> "inserted", table |-> tbl (+) SetToBag({row})]

\* INSERT ... ON CONFLICT (ticker, begin_time) DO NOTHING against a table with
\* UNIQUE (ticker, begin_time): the statement's status and the table after it.
InsertOnConflict(tbl, row) ==
    IF HasKey(tbl, row)
    THEN [status |-> "duplicate", table |-> tbl]
    ELSE [status |-> "inserted", table |-> tbl (+) SetToBag({row})]

\* A store that does not look at the timestamp's type before using it.
store_candle_in_db_NoTimestampCheck(k, c, tk, tbl, db) ==
    IF db # "ok"
    THEN [result |-> "failed", table |-> tbl]
    ELSE [result |-> "inserted", table |-> tbl (+) SetToBag({Row(k, c, tk)})]

\* A store whose row reaches the table although the database call raised.
store_candle_in_db_WritesDespiteFailure(k, c, tk, tbl, db) ==
    IF c.time.form \in {"other", "badstr"}
    THEN [result |-> "skipped", table |-> tbl]
    ELSE [result |-> IF db = "ok" THEN InsertOnConflict(tbl, Row(k, c, tk)).status
                                  ELSE "failed",
          table  |-> InsertOnConflict(tbl, Row(k, c, tk)).table]

\* What the database does during one store: it works, get_db_connection()
\* raises, or cursor.execute() raises.
DbOutcomes == {"ok", "no_connection", "execute_error"}

\* store_candle_in_db(candle, ticker, table_name) against table tbl; db is what
\* the database does.  The outcome and the new table:
\* "skipped" (unsupported timestamp type), "failed" (an exception was caught),
\* "unique_violation" (the caught exception is the key's uniqueness error),
\* "inserted" or "duplicate" (the statement ran).
store_candle_in_db(k, c, tk, tbl, db) ==
    IF c.time.form = "other"
    THEN [result |-> "skipped", table |-> tbl]
    ELSE IF c.time.form = "badstr"
    THEN [result |-> "failed", table |-> tbl]
    ELSE IF db # "ok"
    THEN [result |-> "failed", table |-> tbl]
    ELSE [result |-> InsertOnConflict(tbl, Row(k, c, tk)).status,
          table  |-> InsertOnConflict(tbl, Row(k, c, tk)).table]

\* The connection store_candle_in_db leaves behind when it returns:
\* "none"     no connection was opened (the timestamp was rejected first, or
\*            get_db_connection() raised);
\* "closed"   conn.close() was executed (10-minute script, statement and
\*            commit succeeded);
\* "unclosed" a connection was opened and the function returned without
\*            calling close() on it: in the 10-minute script the exception of
\*            execute/commit jumps over conn.close(); in the hourly script
\*            "with get_db_connection() as conn" ends the transaction on exit
\*            and never closes.  Such a connection stays open until the
\*            interpreter finalizes the abandoned object.
ConnectionAfter(k, c, db) ==
    IF c.time.form \in {"other", "badstr"} \/ db = "no_connection"
    THEN "none"
    ELSE IF k = "10min" /\ db = "ok"
    THEN "closed"
    ELSE "unclosed"

----------------------------------------------------------------------------
(* The scheduler's gates and its wait.                                     *)

InHours(t) == 10 <= Hour(t) /\ Hour(t) < 23

\* A classic gate that forgets the weekday test.
ClassicGate_AnyDay(k, t) == InHours(t)

\* The condition under which scheduler() calls fetch_and_store(classic_stocks, ...).
ClassicGate(k, t) ==
    IF k = "10min" THEN Weekday(t) < 5 /\ InHours(t) ELSE Weekday(t) < 5

\* The condition under which scheduler() calls fetch_and_store(weekend_stocks, ...).
WeekendGate(k, t) == InHours(t)

\* A wait of one full step whatever the clock reads.
SleepSeconds_FullStep(k, t) == IF k = "10min" THEN 600 ELSE 3600

\* A wait that counts whole minutes to the boundary and forgets now.second.
SleepSeconds_WholeMinutes(k, t) ==
    IF k = "10min"
    THEN (10 - (Minute(t) % 10)) * 60
    ELSE (60 - Minute(t)) * 60

\* sleep_seconds computed from the clock reading t at the end of an iteration.
SleepSeconds(k, t) ==
    IF k = "10min"
    THEN (10 - (Minute(t) % 10)) * 60 - Second(t)
    ELSE (60 - Minute(t)) * 60 - Second(t)

\* A lookback of one candle interval in both scripts.
Lookback_OneStep(k) == Granularity(k)

\* from_time = now - Lookback
Lookback(k) == IF k = "10min" THEN Minutes(10) ELSE Hours(2)

\* A suspension of the default length whatever the hint says.
ResetSeconds_AlwaysDefault(h) == 60

\* reset_time = int(re.metadata.get('ratelimit_reset', 60)), for a readable hint
ResetSeconds(h) == IF h.how = "absent" THEN 60 ELSE h.val

NoCandle == Candle(Stamp("other", 0, 0), Quotation(0, 0))
NoStore  == [result |-> "none", ticker |-> "", table |-> "", candle |-> NoCandle]

\* The instants at which the process is started.
StartTimes == { At(0, 9, 55, 0), At(0, 10, 3, 7) + 5, At(4, 22, 50, 0),
                At(5, 10, 0, 0), At(6, 3, 0, 0), At(1, 3, 0, 0) }

Sessions == {1, 2}

Targets == {"classic", "weekend"}

\* An optional date argument of query_data.py: absent, or a day counted from
\* the Monday the clock starts at.
Date(d) == [given |-> TRUE, day |-> d]
NoDate  == [given |-> FALSE, day |-> 0]

\* No query was made.
NoQuery == [done |-> FALSE,
            args |-> [table |-> "", limit |-> 0, ticker |-> "",
                      start_date |-> NoDate, end_date |-> NoDate],
            rows |-> {}]

\* What a get_candles call was asked and what it answered, without the times.
Fetched(c) == [figi |-> c.figi, attempt |-> c.attempt, type |-> c.type,
               hint |-> c.hint, candles |-> c.candles]

\* No run of the target has returned yet.
NoRun == [done |-> FALSE, tickers |-> <<>>, fetched |-> <<>>, dbs |-> <<>>,
          table |-> EmptyBag]

\* The run that is returning: its instrument list, the answers it got, what
\* the database did at each store, and the table it leaves.
RunSummary ==
    [done    |-> TRUE,
     tickers |-> tickers,
     fetched |-> [n \in 1..Len(calls) |-> Fetched(calls[n])],
     dbs     |-> [n \in 1..Len(stores) |-> stores[n].db],
     table   |-> tables[table_name]]

IdleOverlap ==
    /\ ov_pc = [p \in Sessions |-> "idle"]
    /\ ov_todo = [p \in Sessions |-> <<>>]
    /\ ov_tx = [p \in Sessions |-> EmptyBag]
    /\ ov_result = [p \in Sessions |-> "none"]

IdleRun ==
    /\ target = "none"
    /\ table_name = ""
    /\ tickers = <<>>
    /\ idx = 0
    /\ from_time = 0
    /\ to_time = 0
    /\ attempt = 0
    /\ candles = <<>>
    /\ reset_time = 0
    /\ calls = <<>>
    /\ stores = <<>>
    /\ run_result = "none"

Init ==
    /\ kind \in Kinds
    /\ clock \in StartTimes
    /\ start_time = clock
    /\ pc = IF kind = "hourly" THEN "setup" ELSE "loop"
    /\ iter = 0
    /\ entered = "start"
    /\ now = clock
    /\ classic_stocks = <<>>
    /\ weekend_stocks = <<>>
    /\ instruments = NoListing
    /\ invoked = {}
    /\ wake = clock
    /\ IdleRun
    /\ store_result = NoStore
    /\ tables = [t \in TableNames |-> EmptyBag]
    /\ faults = 0
    /\ last_run = [tg \in Targets |-> NoRun]
    /\ query = NoQuery
    /\ IdleOverlap

----------------------------------------------------------------------------
(* __main__ of the hourly script: the setup before the scheduler.          *)

\* with get_db_connection() as conn: initialize_tables(conn) -- it works, the
\* connection cannot be opened, or CREATE TABLE fails.
SetupOutcomes == {"ok", "no_connection", "create_failed"}

\* A setup whose failure is logged and followed by the scheduler all the same.
Setup_GoesOnAfterFailure ==
    /\ pc = "setup"
    /\ \E o \in SetupOutcomes :
         /\ Inject(IF o = "ok" THEN 0 ELSE 1)
         /\ entered' = IF o = "ok" THEN "start" ELSE "setup_failed"
    /\ pc' = "loop"
    /\ UNCHANGED <<kind, clock, start_time, iter, now, classic_stocks,
                   weekend_stocks, instruments, invoked, wake>>
    /\ UNCHANGED <<runVars, store_result, tables, ovVars, last_run, query>>

\* The setup succeeds and asyncio.run(scheduler()) starts, or it raises into
\* "except Exception", which logs; the script ends.
Setup ==
    /\ pc = "setup"
    /\ \E o \in SetupOutcomes :
         /\ Inject(IF o = "ok" THEN 0 ELSE 1)
         /\ entered' = IF o = "ok" THEN "start" ELSE "setup_failed"
         /\ pc' = IF o = "ok" THEN "loop" ELSE "terminated"
    /\ UNCHANGED <<kind, clock, start_time, iter, now, classic_stocks,
                   weekend_stocks, instruments, invoked, wake>>
    /\ UNCHANGED <<runVars, store_result, tables, ovVars, last_run, query>>

----------------------------------------------------------------------------
(* scheduler(): one iteration of the while loop.                           *)

\* An iteration start that reads the listing but keeps the lists of the first
\* iteration for the later ones.
IterationStart_Cached ==
    /\ pc = "loop"
    /\ iter < MaxIter
    /\ \E reply \in ListReplies :
         /\ Inject(IF reply = NominalList THEN 0 ELSE 1)
         /\ classic_stocks' = IF iter = 0 THEN get_stock_lists(kind, reply)[1]
                                          ELSE classic_stocks
         /\ weekend_stocks' = IF iter = 0 THEN get_stock_lists(kind, reply)[2]
                                          ELSE weekend_stocks
         /\ instruments' = reply
    /\ now' = clock
    /\ iter' = iter + 1
    /\ invoked' = {}
    /\ pc' = "gate_classic"
    /\ UNCHANGED <<kind, clock, start_time, entered, wake>>
    /\ UNCHANGED <<runVars, store_result, tables, ovVars, last_run, query>>

\* now = datetime.now(tz=MOSCOW_TZ); classic_stocks, weekend_stocks = get_stock_lists()
IterationStart ==
    /\ pc = "loop"
    /\ iter < MaxIter
    /\ \E reply \in ListReplies :
         /\ Inject(IF reply = NominalList THEN 0 ELSE 1)
         /\ classic_stocks' = get_stock_lists(kind, reply)[1]
         /\ weekend_stocks' = get_stock_lists(kind, reply)[2]
         /\ instruments' = reply
    /\ now' = clock
    /\ iter' = iter + 1
    /\ invoked' = {}
    /\ pc' = "gate_classic"
    /\ UNCHANGED <<kind, clock, start_time, entered, wake>>
    /\ UNCHANGED <<runVars, store_result, tables, ovVars, last_run, query>>

\* The call fetch_and_store(stocks, table, interval): entry into the function.
BeginRun(tg, stocks) ==
    /\ target' = tg
    /\ table_name' = TableOf(kind, tg)
    /\ tickers' = stocks
    /\ idx' = 1
    /\ calls' = <<>>
    /\ stores' = <<>>
    /\ run_result' = "running"
    /\ invoked' = invoked \cup {tg}
    /\ pc' = "fetch"
    /\ UNCHANGED <<from_time, to_time, attempt, candles, reset_time>>

SkipRun(next) ==
    /\ pc' = next
    /\ UNCHANGED <<invoked, runVars>>

\* if <classic gate>: fetch_and_store(classic_stocks, ...)
GateClassic ==
    /\ pc = "gate_classic"
    /\ IF ClassicGate(kind, now)
       THEN BeginRun("classic", classic_stocks)
       ELSE SkipRun("gate_weekend")
    /\ UNCHANGED <<kind, clock, start_time, iter, entered, now, classic_stocks,
                   weekend_stocks, instruments, wake>>
    /\ UNCHANGED <<store_result, tables, faults, ovVars, last_run, query>>

\* if <weekend gate>: fetch_and_store(weekend_stocks, ...)
GateWeekend ==
    /\ pc = "gate_weekend"
    /\ IF WeekendGate(kind, now)
       THEN BeginRun("weekend", weekend_stocks)
       ELSE SkipRun("compute_sleep")
    /\ UNCHANGED <<kind, clock, start_time, iter, entered, now, classic_stocks,
                   weekend_stocks, instruments, wake>>
    /\ UNCHANGED <<store_result, tables, faults, ovVars, last_run, query>>

\* fetch_and_store has returned to scheduler().
Returned ==
    /\ pc = "returned"
    /\ pc' = IF target = "classic" THEN "gate_weekend" ELSE "compute_sleep"
    /\ target' = "none"
    /\ table_name' = ""
    /\ tickers' = <<>>
    /\ idx' = 0
    /\ from_time' = 0
    /\ to_time' = 0
    /\ attempt' = 0
    /\ candles' = <<>>
    /\ reset_time' = 0
    /\ calls' = <<>>
    /\ stores' = <<>>
    /\ run_result' = "none"
    /\ UNCHANGED <<kind, clock, start_time, iter, entered, now, classic_stocks,
                   weekend_stocks, instruments, invoked, wake>>
    /\ store_result' = NoStore
    /\ last_run' = [last_run EXCEPT ![target] = RunSummary]
    /\ UNCHANGED <<tables, faults, ovVars, query>>

\* A wait computed from the clock value read at the top of the iteration.
ComputeSleep_FromIterationStart ==
    /\ pc = "compute_sleep"
    /\ wake' = now + Seconds(SleepSeconds(kind, now))
    /\ pc' = "sleeping"
    /\ UNCHANGED <<kind, clock, start_time, iter, entered, now, classic_stocks,
                   weekend_stocks, instruments, invoked>>
    /\ UNCHANGED <<runVars, store_result, tables, faults, ovVars, last_run, query>>

\* now = datetime.now(); sleep_seconds = ...; the await begins.
ComputeSleep ==
    /\ pc = "compute_sleep"
    /\ wake' = clock + Seconds(SleepSeconds(kind, clock))
    /\ pc' = "sleeping"
    /\ UNCHANGED <<kind, clock, start_time, iter, entered, now, classic_stocks,
                   weekend_stocks, instruments, invoked>>
    /\ UNCHANGED <<runVars, store_result, tables, faults, ovVars, last_run, query>>

\* await asyncio.sleep(sleep_seconds) completes; the loop goes round.
WakeUp ==
    /\ pc = "sleeping"
    /\ clock' = wake
    /\ entered' = "wake"
    /\ pc' = "loop"
    /\ UNCHANGED <<kind, start_time, iter, now, classic_stocks, weekend_stocks,
                   instruments, invoked, wake>>
    /\ UNCHANGED <<runVars, store_result, tables, faults, ovVars, last_run, query>>

\* An exception raised by a statement of the try block (at its first statement
\* or while computing the wait) reaches "except Exception".
SchedulerError ==
    /\ \/ pc = "loop" /\ iter < MaxIter /\ iter' = iter + 1
       \/ pc = "compute_sleep" /\ iter' = iter
    /\ pc' = "cooldown"
    /\ Inject(1)
    /\ UNCHANGED <<kind, clock, start_time, entered, now, classic_stocks,
                   weekend_stocks, instruments, invoked, wake>>
    /\ UNCHANGED <<runVars, store_result, tables, ovVars, last_run, query>>

\* A cooldown that goes on to sleep until the next aligned boundary.
Cooldown_ToBoundary ==
    /\ pc = "cooldown"
    /\ clock' = clock + Seconds(60) + Seconds(SleepSeconds(kind, clock + Seconds(60)))
    /\ entered' = "cooldown"
    /\ pc' = "loop"
    /\ UNCHANGED <<kind, start_time, iter, now, classic_stocks, weekend_stocks,
                   instruments, invoked, wake>>
    /\ UNCHANGED <<runVars, store_result, tables, faults, ovVars, last_run, query>>

\* await asyncio.sleep(60) in the except branch; the loop goes round.
Cooldown ==
    /\ pc = "cooldown"
    /\ clock' = clock + Seconds(60)
    /\ entered' = "cooldown"
    /\ pc' = "loop"
    /\ UNCHANGED <<kind, start_time, iter, now, classic_stocks, weekend_stocks,
                   instruments, invoked, wake>>
    /\ UNCHANGED <<runVars, store_result, tables, faults, ovVars, last_run, query>>

----------------------------------------------------------------------------
(* fetch_and_store(tickers, table_name, interval): the loop over the        *)
(* instruments, one step at a time.                                        *)

schedKept == <<kind, start_time, iter, entered, now, classic_stocks,
               weekend_stocks, instruments, invoked, wake>>

\* One get_candles call and its answer, as the run's log shows them.
CallRecord(n, from, to, reply) ==
    [figi |-> tickers[idx].figi, from |-> from, to |-> to, at |-> clock,
     done |-> clock + reply.took, attempt |-> n, type |-> reply.type,
     hint |-> reply.hint, candles |-> reply.candles]

\* One store_candle_in_db call as the run's log shows it: the instrument, the
\* candle, what the database did, the outcome, the table written to, and how
\* many get_candles calls the run had issued by then.
StoreRecord(c, db, res) ==
    [figi |-> tickers[idx].figi, ticker |-> tickers[idx].ticker, candle |-> c,
     db |-> db, result |-> res, table |-> table_name, after_call |-> Len(calls),
     conn |-> ConnectionAfter(kind, c, db)]

\* A loop that calls get_candles again after a failure that is not throttling.
AfterFetchError_Retry == [pc |-> "retry", advance |-> 0]

\* Where the loop goes after a get_candles failure that is not throttling:
\* the branches only log, so the for loop takes the next instrument.
AfterFetchError == [pc |-> "fetch", advance |-> 1]

\* "for ticker in tickers" is exhausted: the function returns normally.
RunFinished ==
    /\ pc = "fetch"
    /\ idx > Len(tickers)
    /\ run_result' = "completed"
    /\ pc' = "returned"
    /\ UNCHANGED <<target, table_name, tickers, idx, from_time, to_time, attempt,
                   candles, reset_time, calls, stores>>
    /\ UNCHANGED <<schedKept, clock, store_result, tables, faults, ovVars, last_run, query>>

\* The next instrument: now and from_time are read and get_candles is called
\* in the first try block; the answer decides the branch.
GetCandles ==
    /\ pc = "fetch"
    /\ idx <= Len(tickers)
    /\ to_time' = clock
    /\ from_time' = clock - Lookback(kind)
    /\ attempt' = 1
    /\ \E reply \in CandleReplies :
         /\ calls' = Append(calls, CallRecord(1, from_time', to_time', reply))
         /\ Inject(IF reply = NominalReply THEN 0 ELSE 1)
         /\ clock' = clock + reply.took
         /\ \/ /\ reply.type = "ok"
               /\ candles' = reply.candles
               /\ pc' = "store"
               /\ UNCHANGED <<idx, reset_time, run_result>>
            \/ /\ reply.type = "throttled"
               /\ reply.hint.how # "bad"
               /\ reset_time' = ResetSeconds(reply.hint)
               /\ pc' = "backoff"
               /\ UNCHANGED <<idx, candles, run_result>>
            \/ \* int() raises inside the except clause: the exception leaves
               \* the for loop and is caught by the function's outer handler.
               /\ reply.type = "throttled"
               /\ reply.hint.how = "bad"
               /\ run_result' = "aborted"
               /\ pc' = "returned"
               /\ UNCHANGED <<idx, candles, reset_time>>
            \/ /\ reply.type \in {"error", "exception"}
               /\ idx' = idx + AfterFetchError.advance
               /\ pc' = AfterFetchError.pc
               /\ UNCHANGED <<candles, reset_time, run_result>>
    /\ UNCHANGED <<target, table_name, tickers, stores>>
    /\ UNCHANGED <<schedKept, store_result, tables, ovVars, last_run, query>>

\* No script retries.
RetriesNever(k) == FALSE

\* Whether a script retries get_candles after the throttling sleep.
RetriesAfterThrottle(k) == k = "10min"

\* time.sleep(reset_time) after RESOURCE_EXHAUSTED.
Backoff ==
    /\ pc = "backoff"
    /\ clock' = clock + Seconds(reset_time)
    /\ IF RetriesAfterThrottle(kind)
       THEN pc' = "retry" /\ idx' = idx
       ELSE pc' = "fetch" /\ idx' = idx + 1
    /\ UNCHANGED <<target, table_name, tickers, from_time, to_time, attempt,
                   candles, reset_time, calls, stores, run_result>>
    /\ UNCHANGED <<schedKept, store_result, tables, faults, ovVars, last_run, query>>

\* The second get_candles call, with from_time and now of the first.
Retry ==
    /\ pc = "retry"
    /\ attempt' = 2
    /\ UNCHANGED <<from_time, to_time>>
    /\ \E reply \in CandleReplies :
         /\ calls' = Append(calls, CallRecord(2, from_time, to_time, reply))
         /\ Inject(IF reply = NominalReply THEN 0 ELSE 1)
         /\ clock' = clock + reply.took
         /\ \/ /\ reply.type = "ok"
               /\ candles' = reply.candles
               /\ pc' = "store"
               /\ idx' = idx
            \/ /\ reply.type # "ok"
               /\ candles' = candles
               /\ pc' = "fetch"
               /\ idx' = idx + 1
    /\ UNCHANGED <<target, table_name, tickers, reset_time, stores, run_result>>
    /\ UNCHANGED <<schedKept, store_result, tables, ovVars, last_run, query>>

\* "for candle in candles": store_candle_in_db on the next candle.
StoreCandle ==
    /\ pc = "store"
    /\ candles # <<>>
    /\ \E db \in DbOutcomes :
         LET r == store_candle_in_db(kind, Head(candles), tickers[idx].ticker,
                                     tables[table_name], db)
         IN  /\ Inject(IF db = "ok" THEN 0 ELSE 1)
             /\ tables' = [tables EXCEPT ![table_name] = r.table]
             /\ store_result' = [result |-> r.result,
                                 ticker |-> tickers[idx].ticker,
                                 table  |-> table_name,
                                 candle |-> Head(candles)]
             /\ stores' = Append(stores, StoreRecord(Head(candles), db, r.result))
    /\ candles' = Tail(candles)
    /\ UNCHANGED <<target, table_name, tickers, idx, from_time, to_time, attempt,
                   reset_time, calls, run_result>>
    /\ UNCHANGED <<schedKept, clock, pc, ovVars, last_run, query>>

\* Ticks slept after the candles of an attempt are stored: time.sleep(0.1)
\* ends the first try block; the retry block has no sleep.
PauseTicks(n) == IF n = 1 THEN 1 ELSE 0

\* All candles of the instrument are stored: on to the next instrument.
InstrumentDone ==
    /\ pc = "store"
    /\ candles = <<>>
    /\ clock' = clock + PauseTicks(attempt)
    /\ idx' = idx + 1
    /\ pc' = "fetch"
    /\ UNCHANGED <<target, table_name, tickers, from_time, to_time, attempt,
                   candles, reset_time, calls, stores, run_result>>
    /\ UNCHANGED <<schedKept, store_result, tables, faults, ovVars, last_run, query>>

Next ==
    \/ Setup
    \/ IterationStart
    \/ GateClassic
    \/ GateWeekend
    \/ RunFinished
    \/ GetCandles
    \/ Backoff
    \/ Retry
    \/ StoreCandle
    \/ InstrumentDone
    \/ Returned
    \/ ComputeSleep
    \/ WakeUp
    \/ SchedulerError
    \/ Cooldown

Spec == Init /\ [][Next]_vars

----------------------------------------------------------------------------
(* Two runs whose store_candle_in_db calls overlap on one table.  Each      *)
(* session opens its own connection; a store is the three steps connect,   *)
(* execute, commit.                                                        *)

\* Candles a session stores, at most this many.
MaxTodo == 2

OverlapTicker == "AAA"
OverlapTable  == TableOf(kind, "classic")
OverlapCandles == {CandleT1dt, CandleT1str, CandleT2dt}
OverlapTodos == UNION { [1..n -> OverlapCandles] : n \in 1..MaxTodo }

InitOverlap ==
    /\ kind \in Kinds
    /\ clock = At(0, 10, 0, 0)
    /\ start_time = clock
    /\ pc = "loop"
    /\ iter = 0
    /\ entered = "start"
    /\ now = clock
    /\ classic_stocks = <<>>
    /\ weekend_stocks = <<>>
    /\ instruments = NoListing
    /\ invoked = {}
    /\ wake = clock
    /\ IdleRun
    /\ store_result = NoStore
    /\ tables = [t \in TableNames |-> EmptyBag]
    /\ faults = 0
    /\ last_run = [tg \in Targets |-> NoRun]
    /\ query = NoQuery
    /\ ov_pc = [p \in Sessions |-> "idle"]
    /\ ov_todo \in [Sessions -> OverlapTodos]
    /\ ov_tx = [p \in Sessions |-> EmptyBag]
    /\ ov_result = [p \in Sessions |-> "none"]

OvRow(p) == Row(kind, Head(ov_todo[p]), OverlapTicker)

\* The unique index makes an insert wait while another session holds an
\* uncommitted row with the same key.
OvBlocked(p) ==
    \E q \in Sessions \ {p} : HasKey(ov_tx[q], OvRow(p))

\* conn = get_db_connection(): the connection opens, or the store fails.
OvConnect(p) ==
    /\ ov_pc[p] = "idle"
    /\ ov_todo[p] # <<>>
    /\ \E db_ok \in BOOLEAN :
         /\ Inject(IF db_ok THEN 0 ELSE 1)
         /\ IF db_ok
            THEN /\ ov_pc' = [ov_pc EXCEPT ![p] = "connected"]
                 /\ UNCHANGED <<ov_todo, ov_result>>
            ELSE /\ ov_result' = [ov_result EXCEPT ![p] = "failed"]
                 /\ ov_todo' = [ov_todo EXCEPT ![p] = Tail(@)]
                 /\ ov_pc' = ov_pc
    /\ UNCHANGED <<schedVars, runVars, store_result, tables, ov_tx, last_run, query>>

\* cursor.execute(query, ...): the insert runs in the session's transaction.
OvExecute(p) ==
    /\ ov_pc[p] = "connected"
    /\ ~OvBlocked(p)
    /\ LET r == InsertOnConflict(tables[OverlapTable], OvRow(p))
       IN  /\ ov_tx' = [ov_tx EXCEPT ![p] = r.table (-) tables[OverlapTable]]
           /\ ov_result' = [ov_result EXCEPT ![p] = r.status]
    /\ ov_pc' = [ov_pc EXCEPT ![p] = "executed"]
    /\ UNCHANGED <<schedVars, runVars, store_result, tables, faults, ov_todo, last_run, query>>

\* conn.commit(): the session's row becomes part of the table; the store ends.
OvCommit(p) ==
    /\ ov_pc[p] = "executed"
    /\ tables' = [tables EXCEPT ![OverlapTable] = @ (+) ov_tx[p]]
    /\ ov_tx' = [ov_tx EXCEPT ![p] = EmptyBag]
    /\ ov_todo' = [ov_todo EXCEPT ![p] = Tail(@)]
    /\ ov_pc' = [ov_pc EXCEPT ![p] = "idle"]
    /\ UNCHANGED <<schedVars, runVars, store_result, faults, ov_result, last_run, query>>

NextOverlap ==
    \E p \in Sessions : OvConnect(p) \/ OvExecute(p) \/ OvCommit(p)

SpecOverlap == InitOverlap /\ [][NextOverlap]_vars

----------------------------------------------------------------------------
(* query_data.py: one query against stored candles.                        *)

\* Rows a queried table holds, at most this many.
MaxRows == 3

\* Begin times of stored candles: Monday 00:00, 09:50 and 23:50, Tuesday
\* 00:00 and 10:00.
QueryTimes == { At(0, 0, 0, 0), T1, At(0, 23, 50, 0), At(1, 0, 0, 0),
                At(1, 10, 0, 0) }

QueryRows ==
    { Row(kind, Candle(Stamp("dt", t - MoscowOffset, 0), Q1), tk) :
        t \in QueryTimes, tk \in {"AAA", "BBB"} }

QueryTables ==
    { SetToBag(S) : S \in {R \in SUBSET QueryRows : Cardinality(R) <= MaxRows} }

\* The command lines: -t, -l, -k (empty when not given), -s and -e.
QueryArgs ==
    [table : TableNames, limit : {1, 10}, ticker : {"", "AAA"},
     start_date : {NoDate, Date(0), Date(1)},
     end_date : {NoDate, Date(0), Date(1)}]

\* validate_date: datetime.strptime(date_text, '%Y-%m-%d'), midnight of the
\* day; the session's time zone is taken to be the trading time zone.
validate_date(d) == Days(d.day)

\* The rows the WHERE clause of query_table lets through.
Matching(tbl, a) ==
    { r \in BagToSet(tbl) :
        /\ a.ticker # "" => r.ticker = a.ticker
        /\ a.start_date.given => r.begin_time >= validate_date(a.start_date)
        /\ a.end_date.given => r.begin_time <= validate_date(a.end_date) }

\* ORDER BY begin_time DESC LIMIT n: the possible result sets (rows of equal
\* begin time come in any order).
query_table(tbl, a) ==
    { S \in SUBSET Matching(tbl, a) :
        /\ Cardinality(S) = IF Cardinality(Matching(tbl, a)) < a.limit
                            THEN Cardinality(Matching(tbl, a)) ELSE a.limit
        /\ \A r \in S : \A o \in Matching(tbl, a) \ S :
              r.begin_time >= o.begin_time }

InitQuery ==
    /\ kind \in Kinds
    /\ clock = At(2, 10, 0, 0)
    /\ start_time = clock
    /\ pc = "loop"
    /\ iter = 0
    /\ entered = "start"
    /\ now = clock
    /\ classic_stocks = <<>>
    /\ weekend_stocks = <<>>
    /\ instruments = NoListing
    /\ invoked = {}
    /\ wake = clock
    /\ IdleRun
    /\ store_result = NoStore
    /\ \E tbl \in QueryTables :
          tables = [t \in TableNames |->
                      IF t = TableOf(kind, "classic") THEN tbl ELSE EmptyBag]
    /\ faults = 0
    /\ last_run = [tg \in Targets |-> NoRun]
    /\ query = NoQuery
    /\ IdleOverlap

\* main(): query_table(conn, args.table, args.limit, args.ticker,
\* args.start_date, args.end_date)
QueryTable ==
    /\ ~query.done
    /\ \E a \in QueryArgs :
          \E rows \in query_table(tables[a.table], a) :
             query' = [done |-> TRUE, args |-> a, rows |-> rows]
    /\ UNCHANGED <<schedVars, runVars, store_result, tables, faults, ovVars,
                   last_run>>

NextQuery == QueryTable

SpecQuery == InitQuery /\ [][NextQuery]_vars

----------------------------------------------------------------------------
(* Properties.                                                             *)

\* Rows of a table with a given key.
RowsFor(tbl, tk, bt) ==
    {r \in BagToSet(tbl) : r.ticker = tk /\ r.begin_time = bt}

\* The instant has second 0 and a minute on the pipeline's grid.
Aligned(k, t) ==
    /\ Second(t) = 0
    /\ t % TicksPerSecond = 0
    /\ IF k = "10min" THEN Minute(t) % 10 = 0 ELSE Minute(t) = 0

\* Positions of the scheduler inside an iteration's try block, after the
\* catalog was read and before the wait is computed.
InIteration ==
    pc \in {"gate_classic", "fetch", "store", "backoff", "retry", "returned",
            "gate_weekend", "compute_sleep"}

\* C1: a store_candle_in_db step whose statement ran leaves exactly one row
\* for the candle's (ticker, begin time); when a row with that key was there
\* before the step, it is still the only one and none of its fields changed,
\* whatever prices the second candle carries (first write wins).
C1_FirstWriteWins ==
    [][ (pc = "store" /\ candles # <<>>
         /\ store_result'.result \in {"inserted", "duplicate"})
        => LET tk   == tickers[idx].ticker
               bt   == ToInstant(Head(candles).time)
               old  == RowsFor(tables[table_name], tk, bt)
               new  == RowsFor(tables'[table_name], tk, bt)
           IN  /\ Cardinality(new) = 1
               /\ \A r \in new : CopiesIn(r, tables'[table_name]) = 1
               /\ old # {} => new = old ]_vars

\* C1 witness: a second store for a stored key has run with other prices.
C1_Witness ==
    /\ store_result.result = "duplicate"
    /\ \E r \in RowsFor(tables[store_result.table], store_result.ticker,
                        ToInstant(store_result.candle.time)) :
           r.open # Price(store_result.candle.open)

\* C2: while the stores of two runs interleave on one table, the table never
\* holds two rows with one (ticker, begin time), and no store ends in the
\* key's uniqueness error.
C2_OverlapKeepsKeysUnique ==
    /\ \A t \in TableNames :
         \A r1 \in BagToSet(tables[t]) :
            /\ CopiesIn(r1, tables[t]) = 1
            /\ \A r2 \in BagToSet(tables[t]) : SameKey(r1, r2) => r1 = r2
    /\ \A p \in Sessions : ov_result[p] # "unique_violation"

\* C2 witness: one session holds an uncommitted row while the other, already
\* connected, is about to insert a candle with the same key.
C2_Witness ==
    \E p \in Sessions : \E q \in Sessions \ {p} :
       /\ ov_pc[p] = "executed"
       /\ ov_pc[q] = "connected"
       /\ HasKey(ov_tx[p], OvRow(q))

\* C3 (as claimed): when the scheduler goes to sleep, no aligned boundary at
\* which a gate was open lies between the start of the iteration and the
\* boundary it will wake at, i.e. no open boundary went without a run.
C3_NoMissedWindows ==
    pc = "sleeping" =>
      \A b \in (now \div Granularity(kind) + 1) .. (wake \div Granularity(kind) - 1) :
         ~(ClassicGate(kind, b * Granularity(kind))
           \/ WeekendGate(kind, b * Granularity(kind)))

\* C4: in the 10-minute pipeline a throttled first call with a readable hint
\* is followed, once the run moves on, by exactly one second call for the
\* same instrument and window, issued no sooner than the hinted number of
\* seconds later; a second call only ever follows a throttled first call; and
\* no instrument gets more than two calls in a run.
C4_ThrottledRetriedOnce ==
    kind = "10min" =>
      \A i \in 1..Len(calls) :
         /\ Cardinality({j \in 1..Len(calls) : calls[j].figi = calls[i].figi}) <= 2
         /\ calls[i].attempt = 2 =>
              /\ i > 1
              /\ calls[i-1].attempt = 1
              /\ calls[i-1].type = "throttled"
              /\ calls[i-1].figi = calls[i].figi
              /\ calls[i-1].from = calls[i].from
              /\ calls[i-1].to = calls[i].to
              /\ calls[i-1].hint.how = "num" =>
                    calls[i].at >= calls[i-1].at + calls[i-1].hint.val * TicksPerSecond
         /\ (calls[i].attempt = 1 /\ calls[i].type = "throttled"
             /\ calls[i].hint.how # "bad" /\ pc \notin {"backoff", "retry"})
            => /\ i < Len(calls)
               /\ calls[i+1].attempt = 2
               /\ calls[i+1].figi = calls[i].figi

\* C4 witness: a call throttled with hint 5, its retry throttled again, and
\* the run already at a later instrument.
C4_Witness ==
    /\ kind = "10min"
    /\ \E i \in 1..Len(calls) :
          /\ i + 2 <= Len(calls)
          /\ calls[i].type = "throttled"
          /\ calls[i].hint = Hint("num", 5)
          /\ calls[i+1].attempt = 2
          /\ calls[i+1].type = "throttled"
          /\ calls[i+2].figi # calls[i].figi

\* C5 (as claimed): in the hourly pipeline a throttled call is followed,
\* after the suspension, by one retry for the same instrument and window.
C5_HourlyRetriesOnce ==
    kind = "hourly" =>
      \A i \in 1..Len(calls) :
         (calls[i].type = "throttled" /\ calls[i].hint.how # "bad"
          /\ pc # "backoff")
         => /\ i < Len(calls)
            /\ calls[i+1].attempt = 2
            /\ calls[i+1].figi = calls[i].figi
            /\ calls[i+1].from = calls[i].from
            /\ calls[i+1].to = calls[i].to

\* C6 (as claimed): when fetch_and_store returns, it has not raised and every
\* instrument of its list has received a get_candles call.
C6_RunReachesEveryInstrument ==
    pc = "returned" =>
      /\ run_result \in {"completed", "aborted"}
      /\ \A n \in 1..Len(tickers) :
            \E i \in 1..Len(calls) : calls[i].figi = tickers[n].figi

\* C7 (as claimed): no target is invoked in an iteration whose trading-time
\* hour is outside 10:00-23:00.
C7_NoRunOutsideHours ==
    invoked # {} => (10 <= Hour(now) /\ Hour(now) < 23)

\* C8: the classic target is invoked only Monday to Friday; and an iteration
\* that reaches its wait has invoked the weekend target exactly when the
\* hour read at its start was inside 10:00-23:00, on any day of the week.
C8_WeekdayAndWeekendGates ==
    /\ "classic" \in invoked => Weekday(now) \in 0..4
    /\ pc \in {"compute_sleep", "sleeping"} =>
         ("weekend" \in invoked <=> (10 <= Hour(now) /\ Hour(now) < 23))

\* C8 witness: a Saturday iteration has run the weekend target alone.
C8_Witness ==
    /\ pc = "sleeping"
    /\ Weekday(now) = 5
    /\ invoked = {"weekend"}

\* C9 (as claimed): the catalog is not read before the first aligned
\* boundary after process start.
C9_NoWorkBeforeFirstBoundary ==
    pc = "gate_classic" =>
      now >= (start_time \div Granularity(kind) + 1) * Granularity(kind)

\* C9 (amended): the first iteration begins at process start, without a wait;
\* every iteration entered from the boundary wait begins at the boundary the
\* wait was computed for, whose minute is on the grid and whose second is 0.
C9_RunsAfterWaitAreAligned ==
    /\ (iter = 1 /\ entered = "start" /\ InIteration) => now = start_time
    /\ (entered = "wake" /\ InIteration) =>
         /\ now >= wake
         /\ Minute(now) = Minute(wake)
         /\ Second(now) = 0
         /\ IF kind = "10min" THEN Minute(now) % 10 = 0 ELSE Minute(now) = 0

\* C9 witness: a run is under way in an iteration entered from the wait.
C9_Witness ==
    /\ entered = "wake"
    /\ pc = "fetch"
    /\ idx <= Len(tickers)

\* C10 (as claimed): after the cooldown no run is invoked before the
\* scheduler has waited for an aligned boundary.
C10_WaitsForBoundaryAfterCooldown ==
    target # "none" => entered # "cooldown"

\* C10 (amended): an exception in the loop leads to the cooldown, never out
\* of the loop; the cooldown lasts exactly 60 seconds and returns to the top
\* of the loop; and the iteration after it starts at once, at the instant
\* the cooldown ended, without a wait for a boundary.
C10_CooldownThenImmediateIteration ==
    [][ /\ pc = "cooldown" =>
             /\ pc' = "loop"
             /\ clock' = clock + 600
             /\ entered' = "cooldown"
        /\ (pc = "loop" /\ entered = "cooldown" /\ pc' = "gate_classic") =>
             /\ now' = clock
             /\ clock' = clock ]_vars

\* C10 witness: a run invoked right after a cooldown, off the grid.
C10_Witness ==
    /\ entered = "cooldown"
    /\ target # "none"
    /\ ~Aligned(kind, now)

\* The FIGIs of a stock list, in its order.
Figis(stocks) == [n \in 1..Len(stocks) |-> stocks[n].figi]

\* The set of elements of a sequence.
Range(s) == {s[n] : n \in 1..Len(s)}

\* C11: every stored row has close time = begin time + granularity, ten
\* minutes in the tables of the 10-minute pipeline and one hour in the tables
\* of the hourly pipeline; and the row inserted for a candle carries the
\* candle's instant as begin time, whether the timestamp came as a datetime
\* or as an ISO-8601 string.
C11_CloseTimeIsBeginPlusGranularity ==
    /\ \A t \in {"classic_stocks", "weekend_stocks"} :
          \A r \in BagToSet(tables[t]) : r.close_time = r.begin_time + Minutes(10)
    /\ \A t \in {"classic_stocks_hourly", "weekend_stocks_hourly"} :
          \A r \in BagToSet(tables[t]) : r.close_time = r.begin_time + Hours(1)
    /\ \A i \in 1..Len(stores) :
          stores[i].result = "inserted" =>
             \E r \in BagToSet(tables[stores[i].table]) :
                /\ r.ticker = stores[i].ticker
                /\ r.begin_time = ToInstant(stores[i].candle.time)
                /\ r.close_time = r.begin_time + Granularity(kind)

\* C11 witness: the hourly pipeline has inserted a candle whose timestamp
\* was a string and one whose timestamp was a datetime.
C11_Witness ==
    /\ kind = "hourly"
    /\ \E i, j \in 1..Len(stores) :
          /\ stores[i].result = "inserted" /\ stores[i].candle.time.form = "str"
          /\ stores[j].result = "inserted" /\ stores[j].candle.time.form = "dt"

\* C12: of the instruments the listing returned, each one with status
\* "normal trading" is in the classic list; each one is in the weekend list
\* exactly when its weekend flag is set, whatever its status, an absent flag
\* counting as unset; one whose status is outside the allow-list and whose
\* flag is unset or absent is in neither list and gets no get_candles call.
C12_Classification ==
    (InIteration /\ instruments.ok) =>
      \A i \in Range(instruments.instruments) :
         /\ i.trading_status = "NORMAL_TRADING"
               => i.figi \in Range(Figis(classic_stocks))
         /\ i.weekend_flag = "true" <=> i.figi \in Range(Figis(weekend_stocks))
         /\ (i.trading_status \notin ClassicStatuses(kind) /\ i.weekend_flag # "true")
               => /\ i.figi \notin Range(Figis(classic_stocks))
                  /\ i.figi \notin Range(Figis(weekend_stocks))
                  /\ \A n \in 1..Len(calls) : calls[n].figi # i.figi

\* C12 witness: the listing held instruments of status outside the allow-list
\* with the flag set, unset and absent, and a weekend run over it has fetched
\* the one with the flag set.
C12_Witness ==
    /\ instruments.ok
    /\ {InstrB, InstrD, InstrE} \subseteq Range(instruments.instruments)
    /\ target = "weekend"
    /\ pc = "returned"
    /\ \E n \in 1..Len(calls) : calls[n].figi = InstrB.figi

\* C13: after a failed listing both lists are empty; the iteration issues no
\* get_candles call and changes no table; and, no further failure occurring,
\* the iteration goes on to compute the wait and sleeps until the next
\* boundary (second 0 of a minute on the grid), never entering the 60-second
\* cooldown.
C13_FailedListingIsAnEmptyRun ==
    [][ (InIteration /\ ~instruments.ok) =>
          /\ classic_stocks = <<>> /\ weekend_stocks = <<>>
          /\ calls' = <<>>
          /\ tables' = tables
          /\ faults' = faults => pc' \in {"gate_weekend", "fetch", "returned",
                                           "compute_sleep", "sleeping"}
          /\ (pc = "compute_sleep" /\ faults' = faults) =>
                /\ pc' = "sleeping"
                /\ wake' > clock
                /\ wake' <= clock + Granularity(kind)
                /\ Second(wake') = 0
                /\ IF kind = "10min" THEN Minute(wake') % 10 = 0
                                     ELSE Minute(wake') = 0 ]_vars

\* C13 witness: an iteration whose listing failed has invoked a run and is
\* asleep until the next boundary.
C13_Witness ==
    /\ ~instruments.ok
    /\ pc = "sleeping"
    /\ invoked # {}
    /\ faults >= 1

\* A get_candles call that failed without being throttled.
FailedCall(c) == c.type \in {"error", "exception"}

\* C14 (as claimed): an instrument whose get_candles call failed without
\* being throttled has had exactly one call in the run, and no store.
C14_FailureMeansOneCall ==
    \A i \in 1..Len(calls) :
       FailedCall(calls[i]) =>
          /\ Cardinality({j \in 1..Len(calls) : calls[j].figi = calls[i].figi}) = 1
          /\ \A n \in 1..Len(stores) : stores[n].figi # calls[i].figi

\* C14 (amended): a get_candles call that failed without being throttled is
\* the instrument's last call in the run and nothing is stored for the
\* instrument; when the failed call is the first attempt it is the
\* instrument's only call, when it is the retry after throttling the
\* instrument has had exactly two calls.
C14_FailedFetchIsNotRetried ==
    \A i \in 1..Len(calls) :
       FailedCall(calls[i]) =>
          /\ \A j \in (i+1)..Len(calls) : calls[j].figi # calls[i].figi
          /\ \A n \in 1..Len(stores) : stores[n].figi # calls[i].figi
          /\ Cardinality({j \in 1..Len(calls) : calls[j].figi = calls[i].figi})
                = calls[i].attempt
          /\ calls[i].attempt = 2 =>
                /\ calls[i-1].figi = calls[i].figi
                /\ calls[i-1].type = "throttled"
          /\ pc \notin {"store", "backoff", "retry"} \/ i < Len(calls)

\* C14 witness: a first call failed without throttling and the run has since
\* fetched and stored for a later instrument.
C14_Witness ==
    \E i \in 1..Len(calls) :
       /\ calls[i].type = "error"
       /\ calls[i].attempt = 1
       /\ \E n \in 1..Len(stores) : stores[n].after_call > i

\* C15 (as claimed): between the end of the last get_candles attempt for one
\* instrument and the first call for the next instrument the run pauses for
\* at least one tick (100 ms).
C15_PauseAfterEveryAttempt ==
    \A i \in 1..(Len(calls) - 1) :
       calls[i+1].figi # calls[i].figi => calls[i+1].at >= calls[i].done + 1

C18_ClassicRunStaysInItsSegment ==
    [][ target = "classic" =>
          LET classic_table == IF kind = "10min" THEN "classic_stocks"
                                                 ELSE "classic_stocks_hourly"
          IN  /\ tickers = classic_stocks
              /\ tickers = get_stock_lists(kind, instruments)[1]
              /\ \A n \in 1..Len(calls') :
                    /\ calls'[n].figi \in Range(Figis(classic_stocks))
                    /\ \E i \in Range(instruments.instruments) :
                          /\ i.figi = calls'[n].figi
                          /\ i.trading_status \in ClassicStatuses(kind)
                    /\ instruments.instruments = NominalCatalog
                          => calls'[n].figi \in {"FIGI_A", "FIGI_C"}
              /\ \A n \in 1..Len(stores') : stores'[n].table = classic_table
              /\ \A t \in TableNames \ {classic_table} : tables'[t] = tables[t] ]_vars

\* C18 witness: over the listing A, B, C (and two unlisted-segment
\* instruments) a classic run has fetched A and C, in this order, and
\* inserted rows.
C18_Witness ==
    /\ target = "classic"
    /\ pc = "returned"
    /\ instruments = NominalList
    /\ [n \in 1..Len(calls) |-> calls[n].figi] = <<"FIGI_A", "FIGI_C">>
    /\ \E n \in 1..Len(stores) : stores[n].result = "inserted"
    /\ weekend_stocks # classic_stocks

\* Position of an instrument in the run's list and in the listing.
PosInRun(f) == CHOOSE n \in 1..Len(tickers) : tickers[n].figi = f
PosInListing(f) ==
    CHOOSE n \in 1..Len(instruments.instruments) : instruments.instruments[n].figi = f

\* The stores made after the c-th get_candles call and before the next one.
StoresAfter(c) == SelectSeq(stores, LAMBDA r : r.after_call = c)

\* C20: in a run the instrument list is in the listing's order, the
\* get_candles calls follow the list's order with the calls of one instrument
\* adjacent, every store is for the instrument of the latest call, the
\* candles stored after a call are the candles that call returned, in the
\* returned order, and all of them are stored before the next call is issued.
C20_SequentialInOrder ==
    target # "none" =>
      /\ \A m, n \in 1..Len(tickers) :
            m < n => PosInListing(tickers[m].figi) < PosInListing(tickers[n].figi)
      /\ \A i, j \in 1..Len(calls) :
            i < j => /\ PosInRun(calls[i].figi) <= PosInRun(calls[j].figi)
                     /\ calls[i].figi = calls[j].figi => j = i + 1
      /\ \A n \in 1..Len(stores) :
            /\ stores[n].after_call \in 1..Len(calls)
            /\ stores[n].figi = calls[stores[n].after_call].figi
            /\ n > 1 => stores[n-1].after_call <= stores[n].after_call
      /\ \A c \in 1..Len(calls) :
            LET done == StoresAfter(c)
            IN  /\ Len(done) <= Len(calls[c].candles)
                /\ \A n \in 1..Len(done) : done[n].candle = calls[c].candles[n]
                /\ (c < Len(calls) \/ pc \in {"fetch", "returned"})
                      => Len(done) = Len(calls[c].candles)

\* C20 witness: the first instrument's answer held three candles, all three
\* went through store_candle_in_db, and the next instrument was then fetched.
C20_Witness ==
    /\ Len(calls) >= 2
    /\ Len(calls[1].candles) = 3
    /\ Len(StoresAfter(1)) = 3
    /\ calls[2].figi # calls[1].figi
    /\ PosInRun(calls[1].figi) < PosInRun(calls[2].figi)

\* The returning run repeats the target's previous run: the same instrument
\* list, the same answers to the same calls, the database behaving the same.
RepeatsLastRun ==
    /\ pc = "returned"
    /\ last_run[target].done
    /\ tickers = last_run[target].tickers
    /\ [n \in 1..Len(calls) |-> Fetched(calls[n])] = last_run[target].fetched
    /\ [n \in 1..Len(stores) |-> stores[n].db] = last_run[target].dbs

C21_RowsAreNeverChanged ==
    [][ \A t \in TableNames :
          \A r \in BagToSet(tables[t]) :
             CopiesIn(r, tables'[t]) >= CopiesIn(r, tables[t]) ]_vars

\* C21 witness: a table holds several rows and the run has just offered a
\* candle with other prices for a key one of them has.
C21_Witness ==
    /\ store_result.result = "duplicate"
    /\ BagCardinality(tables[store_result.table]) >= 2
    /\ \E r \in BagToSet(tables[store_result.table]) :
          /\ r.ticker = store_result.ticker
          /\ r.begin_time = ToInstant(store_result.candle.time)
          /\ r.close # Price(store_result.candle.close)

\* Whether the listing's instrument is eligible for the target.
Eligible(tg, i) ==
    IF tg = "classic" THEN i.trading_status \in ClassicStatuses(kind)
                      ELSE i.weekend_flag = "true"

\* C22: the listing is read at the start of every iteration and the lists
\* last one iteration: a step that begins an iteration takes a listing answer
\* and derives both lists from it, no other step changes them, and a run's
\* instruments are exactly the instruments eligible for its target in the
\* answer of its own iteration, so every get_candles call is for one of them
\* and a completed run has called for each of them.
C22_CatalogIsReadEachIteration ==
    /\ InIteration =>
          /\ instruments \in ListReplies
          /\ Range(Figis(classic_stocks)) =
                {i.figi : i \in {j \in Range(instruments.instruments) :
                                   Eligible("classic", j)}}
          /\ Range(Figis(weekend_stocks)) =
                {i.figi : i \in {j \in Range(instruments.instruments) :
                                   Eligible("weekend", j)}}
    /\ target # "none" =>
          /\ tickers = IF target = "classic" THEN classic_stocks ELSE weekend_stocks
          /\ \A n \in 1..Len(calls) :
                \E i \in Range(instruments.instruments) :
                   i.figi = calls[n].figi /\ Eligible(target, i)
          /\ run_result = "completed" =>
                \A i \in Range(instruments.instruments) :
                   Eligible(target, i) =>
                      \E n \in 1..Len(calls) : calls[n].figi = i.figi

\* C22 witness: an instrument the target's previous run fetched is no longer
\* eligible in this iteration's listing, and the run of this iteration has
\* completed without it.
C22_Witness ==
    /\ pc = "returned"
    /\ run_result = "completed"
    /\ last_run[target].done
    /\ calls # <<>>
    /\ \E f \in {last_run[target].fetched[n].figi :
                    n \in 1..Len(last_run[target].fetched)} :
          /\ f \notin Range(Figis(tickers))
          /\ \A n \in 1..Len(calls) : calls[n].figi # f

\* Trading statuses an instrument may carry.
Statuses == {"NORMAL_TRADING", "BREAK_IN_TRADING", "NOT_AVAILABLE_FOR_TRADING",
             "CLOSED"}

\* C23 (as claimed): on every clock value, listing answer and upstream answer
\* a pipeline meets, the two scripts decide alike: the same gates open, the
\* same statuses are on the allow-list and the same instruments end up in the
\* lists, and a throttled call is retried by both or by neither.
C23_HourlyDecidesLikeTenMinute ==
    /\ InIteration =>
          /\ ClassicGate("10min", now) = ClassicGate("hourly", now)
          /\ WeekendGate("10min", now) = WeekendGate("hourly", now)
    /\ (InIteration /\ instruments.ok) =>
          /\ Figis(get_stock_lists("10min", instruments)[1])
                = Figis(get_stock_lists("hourly", instruments)[1])
          /\ Figis(get_stock_lists("10min", instruments)[2])
                = Figis(get_stock_lists("hourly", instruments)[2])
          /\ \A st \in Statuses :
                (st \in ClassicStatuses("10min")) = (st \in ClassicStatuses("hourly"))
    /\ pc = "backoff" =>
          RetriesAfterThrottle("10min") = RetriesAfterThrottle("hourly")

\* The day an instant falls on.
DayOf(t) == t \div Days(1)

\* C24 (as claimed): a query shows every stored record of the table that has
\* the ticker asked for and whose begin time falls on a day from the start
\* date to the end date, both days included whole, unless the row limit cut
\* it off in favour of records that are not older.
C24_DatesAreInclusive ==
    query.done =>
      \A r \in BagToSet(tables[query.args.table]) :
         ( /\ query.args.ticker # "" => r.ticker = query.args.ticker
           /\ query.args.start_date.given
                 => DayOf(r.begin_time) >= query.args.start_date.day
           /\ query.args.end_date.given
                 => DayOf(r.begin_time) <= query.args.end_date.day )
         => \/ r \in query.rows
            \/ /\ Cardinality(query.rows) = query.args.limit
               /\ \A o \in query.rows : o.begin_time >= r.begin_time

\* C25: a run begins only while no run is active, the classic run at the
\* classic gate and the weekend run at the weekend gate, which is reached
\* only after the classic run, if any, has returned; and the wait is
\* computed while no run is active, from the clock as it reads then: the
\* scheduler will wake at that clock value plus the seconds left to the next
\* boundary of the grid.
C25_RunsInSequenceThenWait ==
    [][ /\ (target' # "none" /\ target' # target) =>
              /\ target = "none"
              /\ calls = <<>> /\ stores = <<>>
              /\ pc = IF target' = "classic" THEN "gate_classic" ELSE "gate_weekend"
              /\ (target' = "weekend" /\ "classic" \in invoked)
                    => last_run["classic"].done
        /\ (target # "none" /\ target' # target) =>
              /\ target' = "none"
              /\ pc = "returned"
        /\ (pc' = "sleeping" /\ pc # "sleeping") =>
              /\ pc = "compute_sleep"
              /\ target = "none"
              /\ clock >= now
              /\ wake' - clock =
                    IF kind = "10min"
                    THEN Seconds((10 - (Minute(clock) % 10)) * 60 - Second(clock))
                    ELSE Seconds((60 - Minute(clock)) * 60 - Second(clock)) ]_vars

\* C25 witness: both runs of an iteration were made one after the other, the
\* first one taking more than an hour, and the scheduler sleeps to a boundary
\* that lies after the end of the second.
C25_Witness ==
    /\ pc = "sleeping"
    /\ invoked = {"classic", "weekend"}
    /\ last_run["classic"].done /\ last_run["weekend"].done
    /\ last_run["weekend"].fetched # <<>>
    /\ clock > now + Hours(1)
    /\ wake > clock

\* C26 (as claimed): the ticker of every stored row is the display ticker of
\* the instrument the candle was fetched for, not its FIGI.
C26_TickerIsDisplayTicker ==
    \A n \in 1..Len(stores) :
       stores[n].result = "inserted" =>
          /\ \E i \in Range(instruments.instruments) :
                i.figi = stores[n].figi /\ i.ticker = stores[n].ticker
          /\ \E r \in BagToSet(tables[stores[n].table]) :
                /\ r.begin_time = ToInstant(stores[n].candle.time)
                /\ \E i \in Range(instruments.instruments) :
                      i.figi = stores[n].figi /\ i.ticker = r.ticker
          /\ \A r \in BagToSet(tables[stores[n].table]) :
                \A i \in Range(instruments.instruments) : r.ticker # i.figi

\* C27: every get_candles call asks for a window of exactly ten minutes in
\* the 10-minute pipeline and exactly two hours in the hourly pipeline; a
\* first attempt's window ends at the instant the call is made, read anew for
\* each instrument; a retry is made later than its window's end and carries
\* the from and to of the first attempt.
C27_WindowIsNowMinusLookback ==
    \A i \in 1..Len(calls) :
       /\ calls[i].to - calls[i].from =
             IF kind = "10min" THEN Minutes(10) ELSE Hours(2)
       /\ calls[i].attempt = 1 => calls[i].to = calls[i].at
       /\ calls[i].attempt = 2 =>
             /\ i > 1
             /\ calls[i].from = calls[i-1].from
             /\ calls[i].to = calls[i-1].to
             /\ calls[i].to = calls[i-1].at
             /\ calls[i].at > calls[i].to

\* C27 witness: a retry made after the suspension with the first attempt's
\* window, followed by a call for the next instrument with a later window.
C27_Witness ==
    \E i \in 1..Len(calls) :
       /\ i + 1 <= Len(calls) /\ i > 1
       /\ calls[i].attempt = 2
       /\ calls[i].at >= calls[i].to + Seconds(5)
       /\ calls[i+1].attempt = 1
       /\ calls[i+1].to > calls[i].to
       /\ calls[i+1].to - calls[i+1].from = calls[i].to - calls[i].from

\* The suspension a throttling answer asks for, in ticks: the hinted number
\* of seconds, or 60 seconds when there is no hint.
HintedTicks(c) == IF c.hint.how = "num" THEN Seconds(c.hint.val) ELSE Seconds(60)

\* C28 (as claimed): after any throttling answer with a hint or without one,
\* the next call of the run comes no sooner than the hinted time, or 60
\* seconds, after the answer.
C28_EveryThrottleSuspends ==
    \A i \in 1..Len(calls) :
       (calls[i].type = "throttled" /\ calls[i].hint.how \in {"num", "absent"}
        /\ i < Len(calls))
       => calls[i+1].at >= calls[i].done + HintedTicks(calls[i])

\* C28 (amended): a throttling answer to a first attempt whose hint is a
\* number or absent suspends the run for exactly the hinted seconds, or 60,
\* before anything else happens: the next call is issued at the end of the
\* suspension and the run's clock has passed it once the run has left the
\* suspension.  A throttling answer to a first attempt whose hint cannot be
\* read as a number is followed by no suspension and no further call: the
\* run ends.  A throttling answer to the retry is followed by no suspension:
\* the next call is for another instrument and is issued at once.
C28_FirstThrottleSuspends ==
    \A i \in 1..Len(calls) :
       calls[i].type = "throttled" =>
          /\ (calls[i].attempt = 1 /\ calls[i].hint.how \in {"num", "absent"}) =>
                /\ i < Len(calls)
                      => calls[i+1].at = calls[i].done + HintedTicks(calls[i])
                /\ (i = Len(calls) /\ pc # "backoff")
                      => clock >= calls[i].done + HintedTicks(calls[i])
                /\ (i = Len(calls) /\ pc = "backoff")
                      => /\ clock = calls[i].done
                         /\ Seconds(reset_time) = HintedTicks(calls[i])
          /\ (calls[i].attempt = 1 /\ calls[i].hint.how = "bad") =>
                /\ i = Len(calls)
                /\ pc = "returned"
                /\ run_result = "aborted"
                /\ clock = calls[i].done
          /\ calls[i].attempt = 2 =>
                /\ i < Len(calls) =>
                      /\ calls[i+1].figi # calls[i].figi
                      /\ calls[i+1].at = calls[i].done
                /\ i = Len(calls) => pc \in {"fetch", "returned"}

\* C28 witness: a first attempt throttled with a hint of 5 seconds, its retry
\* issued 5 seconds later and throttled with no hint, and the next
\* instrument's call issued at that same instant.
C28_Witness ==
    \E i \in 1..Len(calls) :
       /\ i + 2 <= Len(calls)
       /\ calls[i].type = "throttled" /\ calls[i].attempt = 1
       /\ calls[i].hint = Hint("num", 5)
       /\ calls[i+1].attempt = 2
       /\ calls[i+1].at = calls[i].done + Seconds(5)
       /\ calls[i+1].type = "throttled"
       /\ calls[i+1].hint.how = "absent"
       /\ calls[i+2].at = calls[i+1].done

\* C29: in the hourly pipeline a failed setup ends the process: it is in its
\* final position, from which no step is taken, and no iteration was begun,
\* no listing read, no get_candles call or store made and no table written;
\* and the scheduler loop is only ever entered after a setup that worked.
C29_FailedSetupTerminates ==
    /\ (entered = "setup_failed" \/ pc = "terminated") =>
          /\ kind = "hourly"
          /\ entered = "setup_failed" /\ pc = "terminated"
          /\ iter = 0
          /\ instruments = NoListing
          /\ invoked = {} /\ target = "none"
          /\ calls = <<>> /\ stores = <<>>
          /\ \A t \in TableNames : tables[t] = EmptyBag
          /\ ~ENABLED Next
    /\ (kind = "hourly" /\ pc = "setup") => iter = 0 /\ calls = <<>>

\* C29 witness: the hourly process has ended after a failed setup.
C29_Witness ==
    /\ kind = "hourly"
    /\ pc = "terminated"
    /\ entered = "setup_failed"
    /\ faults = 1

\* C30 (as claimed): when a run has executed the insert for candles of two
\* instruments with different FIGIs and the same begin time, the table holds
\* two separate rows with that begin time, one under each instrument's
\* stored ticker.
C30_DistinctInstrumentsKeepTheirRows ==
    \A n, m \in 1..Len(stores) :
       ( /\ stores[n].figi # stores[m].figi
         /\ stores[n].result \in {"inserted", "duplicate"}
         /\ stores[m].result \in {"inserted", "duplicate"}
         /\ ToInstant(stores[n].candle.time) = ToInstant(stores[m].candle.time) )
       => \E r1, r2 \in BagToSet(tables[stores[n].table]) :
             /\ r1 # r2
             /\ r1.begin_time = ToInstant(stores[n].candle.time)
             /\ r2.begin_time = r1.begin_time
             /\ r1.ticker = stores[n].ticker
             /\ r2.ticker = stores[m].ticker

\* C31 (as claimed): every connection a store operation opened has been
\* closed when the store operation returns, whether it succeeded or failed,
\* so no store of any run leaves a connection behind.
C31_StoreClosesItsConnection ==
    \A n \in 1..Len(stores) : stores[n].conn # "unclosed"

----------------------------------------------------------------------------
(* The wait computation over every clock reading.  The iteration began on *)
(* Sunday 03:00:00, when neither gate is open; the listing request failed  *)
(* after some time, so no run followed, and the scheduler is about to read *)
(* the clock for its wait at any minute, second and half second.           *)

WaitReadings ==
    { At(6, 3, m, sec) + f : m \in 0..59, sec \in 0..59, f \in {0, 5} }

InitWait ==
    /\ kind \in Kinds
    /\ start_time = At(6, 3, 0, 0)
    /\ now = start_time
    /\ clock \in WaitReadings
    /\ pc = "compute_sleep"
    /\ iter = 1
    /\ entered = "start"
    /\ classic_stocks = <<>>
    /\ weekend_stocks = <<>>
    /\ instruments = NoListing
    /\ invoked = {}
    /\ wake = start_time
    /\ IdleRun
    /\ store_result = NoStore
    /\ tables = [t \in TableNames |-> EmptyBag]
    /\ faults = 1
    /\ last_run = [tg \in Targets |-> NoRun]
    /\ query = NoQuery
    /\ IdleOverlap

NextWait == ComputeSleep \/ WakeUp

SpecWait == InitWait /\ [][NextWait]_vars

\* C32: while the scheduler sleeps after a run, the wait it computed (wake
\* minus the clock value read for the computation) is a whole number of
\* seconds, at least 1 s and at most one granularity step (600 s in the
\* 10-minute pipeline, 3600 s in the hourly one), never zero or negative, and
\* the wake-up time has second 0 and a minute that is a multiple of 10
\* (10-minute pipeline) or equal to 0 (hourly pipeline).
C32_WaitReachesNextBoundary ==
    pc = "sleeping" =>
       /\ (wake - clock) % TicksPerSecond = 0
       /\ wake - clock >= Seconds(1)
       /\ wake - clock <= Granularity(kind)
       /\ Second(wake) = 0
       /\ kind = "10min"  => Minute(wake) % 10 = 0
       /\ kind = "hourly" => Minute(wake) = 0

\* The clock is read one second (or half a second) before the boundary: the
\* wait is exactly 1 s.
C32_Witness ==
    /\ pc = "sleeping"
    /\ Minute(clock) = 59 /\ Second(clock) = 59
    /\ wake - clock = Seconds(1)

====
